---- MODULE Spec2Model ----
(***************************************************************************)
(* Token lifecycle and polling coordinator of the Enode integration        *)
(* (enodeforha/__init__.py, enodeforha/config_flow.py).                    *)
(*                                                                         *)
(* hass.data[DOMAIN] is the process-wide store: next_id, tokens,           *)
(* renewal_tasks, coordinators.  Every config entry owns at most one       *)
(* EnodeCoordinator object; its tasks (setup, fetch cycle, timer-fired     *)
(* renewal) are coroutines on one event loop, so each action below is the  *)
(* code between two awaits that suspend (HTTP calls, lock acquisition).    *)
(***************************************************************************)
EXTENDS Integers, FiniteSets, Sequences, TLC

\* ---------------------------------------------------------------- bounds

\* Number of clock ticks the model lets pass.
MaxTicks == 1

\* Number of coroutines suspended at an await at the same time.
MaxInFlight == 2

\* ------------------------------------------------------------- constants

TOKEN_EXPIRY_BUFFER == 300

\* "+ 3600  # 1 hour validity" and the default of token_data.get("expires_in", 3600)
DEFAULT_EXPIRES_IN == 3600

\* const.py
DEFAULT_UPDATE_INTERVAL == 60
MIN_UPDATE_INTERVAL == 5
MAX_UPDATE_INTERVAL == 3600

\* One tick of the clock, in seconds: the delay of a renewal timer armed for a
\* token that has just been issued.
TickLen == DEFAULT_EXPIRES_IN - TOKEN_EXPIRY_BUFFER

\* Config entries (slots), OAuth clients.
Entries == {"e1", "e2", "e3"}
Clients == {"c1", "c2"}

\* expires_in of a token response; 0 stands for a response without the key.
NoTtl == 0
ExpiresIn == {NoTtl, DEFAULT_EXPIRES_IN, DEFAULT_EXPIRES_IN \div 2}

\* entry.options without CONF_UPDATE_INTERVAL; no coordinator, so no interval
NoOption == 0
NoInterval == 0

NoEntry ==
    [client_id |-> "", client_secret |-> "", integration_id |-> 0,
     update_interval |-> NoOption]

\* No config flow in progress; no options form answered.
NoFlow == [step |-> "", client |-> "", integration_id |-> 0, errors |-> ""]
NoRecord == [client_id |-> "", client_secret |-> "", access_token |-> 0, token_expiry |-> 0]

\* ------------------------------------------------------------- variables

VARIABLES
    now,                \* datetime.now(timezone.utc).timestamp()
    entries,            \* hass.config_entries: entry -> entry.data
    domain,             \* DOMAIN in hass.data
    next_id,            \* hass.data[DOMAIN]["next_id"]
    tokens,             \* hass.data[DOMAIN]["tokens"]: integration id -> record
    renewal_tasks,      \* hass.data[DOMAIN]["renewal_tasks"]: integration id -> handle (0: no key)
    coordinators,       \* keys of hass.data[DOMAIN]["coordinators"]
    timers,             \* armed timers of the event loop: [h, owner, at]
    setup,              \* config entry state: "not_loaded", "post", "refresh", "loaded"
    token_info,         \* coordinator._token_info
    renewal_attempted,  \* coordinator._renewal_attempted
    token_lock,         \* coordinator._token_lock.locked()
    fpc,                \* position of the coordinator's fetch cycle
    tpc,                \* position of the coordinator's timer-fired renew_token
    data,               \* coordinator.data (last snapshot)
    bearer,             \* access token in the Authorization header of the
                        \* coordinator's GET in flight (0: none)
    device_info,        \* coordinator._device_info
    result,             \* how the coordinator's last fetch cycle ended
    switches,           \* the entry's switch entities: smart charging, charge control
    update_interval,    \* coordinator.update_interval in seconds (0: no coordinator built)
    flow,               \* the config flow in progress, and the errors of the last
                        \* options form
    api                 \* the Enode service: the access tokens it answers 401 to, and
                        \* whether its token endpoint has come up for good

vars == <<now, entries, domain, next_id, tokens, renewal_tasks, coordinators,
          timers, setup, token_info, renewal_attempted, token_lock, fpc, tpc, data,
          bearer, device_info, result, switches, update_interval, flow, api>>

\* --------------------------------------------------------------- helpers

IntegrationIds == 1..2

\* coordinator.data before the first successful fetch (None)
NoData == [id |-> ""]

\* JSON null for batteryLevel and chargeLimit
NoLevel == -1

\* "chargeState": null
NullChargeState == [null |-> TRUE]

\* The chargeState objects of a vehicle record: the three flags, and the battery
\* level and the charge limit in percent.
ChargeStates ==
    [isCharging : BOOLEAN, isPluggedIn : BOOLEAN, isFullyCharged : BOOLEAN,
     batteryLevel : {NoLevel, 50, 80}, chargeLimit : {NoLevel, 80}]

\* A key the JSON object does not have.
Absent == "(absent)"

\* The characters of a VIN (none: the record has no "vin" key), and of the default
\* 'Unknown VIN'.
AbsentVin == <<>>
SomeVin == <<"5", "Y", "J", "3", "E", "1", "E", "A", "7", "K", "F">>
UnknownVin == <<"U", "n", "k", "n", "o", "w", "n", " ", "V", "I", "N">>

\* The "information" object of the vehicle record the main specifications use.
FullInformation ==
    [displayName |-> "Family car", brand |-> "Tesla", model |-> "Model 3",
     vin |-> SomeVin, year |-> "2019"]

\* The "information" objects of a vehicle record: displayName, brand, model and vin
\* present or not.
Informations ==
    [displayName : {Absent, "Family car"}, brand : {Absent, "Tesla"},
     model : {Absent, "Model 3"}, vin : {AbsentVin, SomeVin}, year : {"2019"}]

\* The records of this coordinator's vehicle that a GET can return.  capable stands
\* for capabilities.smartCharging.isCapable and capabilities.startCharging.isCapable,
\* isEnabled for smartChargingPolicy.isEnabled ("None": no policy in the record).
\* A vehicle that cannot be controlled:
Payloads ==
    {[id |-> "vehicle", capable |-> FALSE, chargeState |-> NullChargeState,
      isEnabled |-> "None", information |-> FullInformation]}

\* The same vehicle with any "information" object:
DisplayPayloads ==
    [id : {"vehicle"}, capable : {FALSE}, chargeState : {NullChargeState},
     isEnabled : {"None"}, information : Informations]

\* A vehicle that can:
ControlPayloads ==
    [id : {"vehicle"}, capable : {TRUE},
     chargeState : ChargeStates \cup {NullChargeState},
     isEnabled : {"True", "False", "None"}, information : {FullInformation}]

\* coordinator._device_info before the first successful fetch ({})
NoDeviceInfo == [identifiers |-> ""]

\* No fetch cycle of the coordinator has ended yet.
NoResult == [kind |-> "", text |-> ""]

\* A GET that gets no answer (connection error).
TransportError == 0

\* EnodeSmartChargingSwitch and EnodeChargeControlSwitch
SwitchKinds == {"smart", "charge"}

\* A switch entity as EnodeSwitchBase.__init__ leaves it, with no control action
\* run yet.  pc, bearer and body describe the control POST of the action that is
\* running or has run last; outcome, notice, level and refresh what that action
\* returned or raised, the last message it showed with its log level, and whether
\* it asked the coordinator for a refresh.
NoSwitch ==
    [pc |-> "idle", local_state |-> "None", last_action |-> "None",
     bearer |-> 0, body |-> "", outcome |-> "", notice |-> "", level |-> "",
     refresh |-> FALSE]


\* entry.data[CONF_INTEGRATION_ID], which is also coordinator._integration_id
IidOf(e) == entries[e].integration_id

EmptyTokens == [i \in IntegrationIds |-> NoRecord]
EmptyTasks == [i \in IntegrationIds |-> 0]

\* Coroutines suspended at an await.
InFlight ==
    Cardinality({e \in Entries : setup[e] = "post"})
    + Cardinality({e \in Entries : fpc[e] # "idle"})
    + Cardinality({e \in Entries : tpc[e] # "idle"})

\* A handle that is not idempotent: called when its timer is no longer armed, it
\* disarms every timer.
CancelTimer_stale(tm, h) ==
    IF \E t \in tm : t.h = h THEN {t \in tm : t.h # h} ELSE {}

\* The handle returned by event.async_track_point_in_time: calling it cancels the
\* timer if it is still armed and does nothing otherwise.
CancelTimer(tm, h) == {t \in tm : t.h # h}

\* A handle no armed timer and no other renewal_tasks key uses.
FreshHandle(i) ==
    LET used == {t.h : t \in CancelTimer(timers, renewal_tasks[i])}
                \cup {renewal_tasks[j] : j \in IntegrationIds \ {i}}
    IN  CHOOSE h \in 1..(Cardinality(used) + 1) :
            h \notin used /\ \A k \in 1..(h - 1) : k \in used

\* schedule_token_renewal: cancel the handle stored for the integration, arm a timer
\* at expiry - TOKEN_EXPIRY_BUFFER bound to this coordinator's renew_token, store it.
schedule_token_renewal(e, expiry_timestamp) ==
    LET i == IidOf(e)
        h == FreshHandle(i)
    IN  /\ timers' = CancelTimer(timers, renewal_tasks[i])
                        \cup {[h |-> h, owner |-> e,
                               at |-> expiry_timestamp - TOKEN_EXPIRY_BUFFER]}
        /\ renewal_tasks' = [renewal_tasks EXCEPT ![i] = h]

\* expiry_time of async_setup_entry and renew_token
expiry_time(expires_in) == now + DEFAULT_EXPIRES_IN

\* expiry_time of validate_credentials
validated_expiry(expires_in) ==
    now + (IF expires_in = NoTtl THEN DEFAULT_EXPIRES_IN ELSE expires_in)

\* is_token_valid
is_token_valid(token) ==
    token # NoRecord /\ now < token.token_expiry - TOKEN_EXPIRY_BUFFER

\* The access_token of a 2xx answer of the token endpoint: one that no record of
\* the store and no coordinator holds.
NewToken ==
    LET used == {tokens[i].access_token : i \in IntegrationIds}
                \cup {token_info[e].access_token : e \in Entries}
                \cup {bearer[e] : e \in Entries}
                \cup api.rejects
    IN  CHOOSE n \in 1..(Cardinality(used) + 1) :
            n \notin used /\ \A k \in 1..(n - 1) : k \in used

\* ------------------------------------------------------------------ Init

\* The config entries a restart of the host finds: e1 and e2 were created for OAuth
\* client c1 (integration 1), e3 for client c2 (integration 2).
ConfigEntries ==
    [e \in Entries |->
        IF e = "e3"
        THEN [client_id |-> "c2", client_secret |-> "s2", integration_id |-> 2,
              update_interval |-> NoOption]
        ELSE [client_id |-> "c1", client_secret |-> "s1", integration_id |-> 1,
              update_interval |-> IF e = "e1" THEN NoOption
                                              ELSE DEFAULT_UPDATE_INTERVAL]]

\* The host has started with the config entries of `present`; async_setup has run.
InitWith(present) ==
    /\ now = 0
    /\ entries = [e \in Entries |-> IF e \in present THEN ConfigEntries[e] ELSE NoEntry]
    /\ domain = TRUE
    /\ next_id = 1
    /\ tokens = EmptyTokens
    /\ renewal_tasks = EmptyTasks
    /\ coordinators = {}
    /\ timers = {}
    /\ setup = [e \in Entries |-> "not_loaded"]
    /\ token_info = [e \in Entries |-> NoRecord]
    /\ renewal_attempted = [e \in Entries |-> FALSE]
    /\ token_lock = [e \in Entries |-> FALSE]
    /\ fpc = [e \in Entries |-> "idle"]
    /\ tpc = [e \in Entries |-> "idle"]
    /\ data = [e \in Entries |-> NoData]
    /\ bearer = [e \in Entries |-> 0]
    /\ device_info = [e \in Entries |-> NoDeviceInfo]
    /\ result = [e \in Entries |-> NoResult]
    /\ switches = [e \in Entries |-> [k \in SwitchKinds |-> NoSwitch]]
    /\ update_interval = [e \in Entries |-> NoInterval]
    /\ flow = NoFlow
    /\ api = [rejects |-> {}, up |-> FALSE]

\* Two config entries: of one OAuth client (they share integration 1), or of two
\* clients (integrations 1 and 2).
Init == InitWith({"e1", "e2"}) \/ InitWith({"e1", "e3"})

\* ------------------------------------------------------- async_setup_entry

\* EnodeCoordinator.__init__ followed by the first GET of
\* async_config_entry_first_refresh.
StartFirstRefresh(e, token) ==
    /\ token_info' = [token_info EXCEPT ![e] = token]
    /\ renewal_attempted' = [renewal_attempted EXCEPT ![e] = FALSE]
    /\ token_lock' = [token_lock EXCEPT ![e] = FALSE]
    /\ data' = [data EXCEPT ![e] = NoData]
    /\ fpc' = [fpc EXCEPT ![e] = "get1"]
    /\ bearer' = [bearer EXCEPT ![e] = token.access_token]
    /\ device_info' = [device_info EXCEPT ![e] = NoDeviceInfo]
    /\ result' = [result EXCEPT ![e] = NoResult]
    /\ update_interval' = [update_interval EXCEPT ![e] =
                               IF entries[e].update_interval = NoOption
                               THEN DEFAULT_UPDATE_INTERVAL
                               ELSE entries[e].update_interval]
    /\ setup' = [setup EXCEPT ![e] = "refresh"]

\* async_setup_entry up to its first await: the token POST when the store has no
\* record for the integration, the first refresh otherwise.  The entry's previous
\* coordinator object, if any, has nothing running and no timer bound to it.
SetupStart(e) ==
    /\ entries[e] # NoEntry
    /\ setup[e] = "not_loaded"
    /\ fpc[e] = "idle" /\ tpc[e] = "idle"
    /\ \A t \in timers : t.owner # e
    /\ InFlight < MaxInFlight
    /\ domain' = TRUE
    /\ IF tokens[IidOf(e)] = NoRecord
         THEN /\ setup' = [setup EXCEPT ![e] = "post"]
              /\ UNCHANGED <<token_info, renewal_attempted, token_lock, data, fpc,
                             bearer, device_info, result, update_interval>>
         ELSE StartFirstRefresh(e, tokens[IidOf(e)])
    /\ UNCHANGED <<now, entries, switches, flow, api, next_id, tokens, renewal_tasks,
                   coordinators, timers, tpc>>

\* The token POST of async_setup_entry answers 2xx.
SetupTokenOk(e, expires_in) ==
    /\ setup[e] = "post"
    /\ IF domain
         THEN LET token == [client_id |-> entries[e].client_id,
                            client_secret |-> entries[e].client_secret,
                            access_token |-> NewToken,
                            token_expiry |-> expiry_time(expires_in)]
              IN  /\ tokens' = [tokens EXCEPT ![IidOf(e)] = token]
                  /\ StartFirstRefresh(e, token)
         ELSE \* hass.data[DOMAIN] is gone: KeyError, "return False"
              /\ setup' = [setup EXCEPT ![e] = "not_loaded"]
              /\ UNCHANGED <<tokens, token_info, renewal_attempted, token_lock, data,
                             fpc, bearer, device_info, result, update_interval>>
    /\ UNCHANGED <<now, entries, switches, flow, api, domain, next_id, renewal_tasks,
                   coordinators, timers, tpc>>

\* The token POST of async_setup_entry fails (ClientError: ConfigEntryNotReady;
\* anything else: return False).
SetupTokenFail(e) ==
    /\ setup[e] = "post"
    /\ setup' = [setup EXCEPT ![e] = "not_loaded"]
    /\ UNCHANGED <<now, entries, switches, update_interval, flow, api, bearer, device_info, result, domain, next_id, tokens, renewal_tasks,
                   coordinators, timers, token_info, renewal_attempted, token_lock,
                   fpc, tpc, data>>

\* async_setup_entry after a successful first refresh: register the coordinator and
\* schedule the initial renewal.
FinishSetup(e) ==
    IF ~domain
    THEN \* hass.data[DOMAIN]["coordinators"]: KeyError
         /\ setup' = [setup EXCEPT ![e] = "not_loaded"]
         /\ UNCHANGED <<coordinators, renewal_tasks, timers>>
    ELSE /\ coordinators' = coordinators \cup {e}
         /\ IF tokens[IidOf(e)] = NoRecord
              THEN \* hass.data[DOMAIN]["tokens"][integration_id]: KeyError
                   /\ setup' = [setup EXCEPT ![e] = "not_loaded"]
                   /\ UNCHANGED <<renewal_tasks, timers>>
              ELSE /\ schedule_token_renewal(e, tokens[IidOf(e)].token_expiry)
                   /\ setup' = [setup EXCEPT ![e] = "loaded"]

\* ------------------------------------------------------ async_unload_entry

\* An unload that cleans up without looking at the other coordinators.
LastOfIntegration_always(e) == TRUE

\* "not any(c._integration_id == integration_id for c in coordinators.values())",
\* evaluated after this entry's coordinator has been popped
LastOfIntegration(e) ==
    \A c \in coordinators \ {e} : IidOf(c) # IidOf(e)

async_unload_entry(e) ==
    LET i == IidOf(e)
        last == LastOfIntegration(e)
    IN  /\ setup[e] = "loaded"
        /\ e \in coordinators
        /\ setup' = [setup EXCEPT ![e] = "not_loaded"]
        /\ coordinators' = coordinators \ {e}
        \* "if task := renewal_tasks.pop(integration_id, None): task()"
        /\ timers' = IF last THEN CancelTimer(timers, renewal_tasks[i]) ELSE timers
        /\ IF coordinators \ {e} = {}
             THEN \* hass.data.pop(DOMAIN)
                  /\ domain' = FALSE
                  /\ next_id' = 1
                  /\ tokens' = EmptyTokens
                  /\ renewal_tasks' = EmptyTasks
             ELSE /\ UNCHANGED <<domain, next_id>>
                  /\ renewal_tasks' = IF last THEN [renewal_tasks EXCEPT ![i] = 0]
                                               ELSE renewal_tasks
                  /\ tokens' = IF last THEN [tokens EXCEPT ![i] = NoRecord] ELSE tokens
        /\ UNCHANGED <<now, entries, switches, update_interval, flow, api, bearer, device_info, result, token_info, renewal_attempted, token_lock,
                       fpc, tpc, data>>

\* -------------------------------------------------------------- renew_token

\* "async with self._token_lock": taken at once when the lock is free and nobody
\* waits for it, otherwise the caller queues.
LockIsFree(e) ==
    ~token_lock[e] /\ fpc[e] # "lockwait" /\ tpc[e] # "lockwait"

\* A renewal that writes the new access token into the stored record and leaves
\* the record's expiry as it was.
RenewSucceed_tokenOnly(e, expires_in) ==
    LET new_token_info == [token_info[e] EXCEPT !.access_token = NewToken,
                                                !.token_expiry = expiry_time(expires_in)]
    IN  /\ tokens' = [tokens EXCEPT ![IidOf(e)].access_token = NewToken]
        /\ token_info' = [token_info EXCEPT ![e] = new_token_info]
        /\ schedule_token_renewal(e, new_token_info.token_expiry)
        /\ renewal_attempted' = [renewal_attempted EXCEPT ![e] = FALSE]
        /\ token_lock' = [token_lock EXCEPT ![e] = FALSE]

\* renew_token after a 2xx answer of the token POST, hass.data[DOMAIN] present.
RenewSucceed(e, expires_in) ==
    LET new_token_info == [token_info[e] EXCEPT !.access_token = NewToken,
                                                !.token_expiry = expiry_time(expires_in)]
    IN  /\ tokens' = [tokens EXCEPT ![IidOf(e)] = new_token_info]
        /\ token_info' = [token_info EXCEPT ![e] = new_token_info]
        /\ schedule_token_renewal(e, new_token_info.token_expiry)
        /\ renewal_attempted' = [renewal_attempted EXCEPT ![e] = FALSE]
        /\ token_lock' = [token_lock EXCEPT ![e] = FALSE]

\* A failing renew_token that would keep the lock.
RenewFail_keepsLock(e) ==
    UNCHANGED <<tokens, token_info, renewal_tasks, timers, renewal_attempted,
                token_lock>>

\* renew_token's "except Exception: ... raise".
RenewFail(e) ==
    /\ token_lock' = [token_lock EXCEPT ![e] = FALSE]
    /\ UNCHANGED <<tokens, token_info, renewal_tasks, timers, renewal_attempted>>

\* ------------------------------------------------------ _async_update_data

\* What a GET that does not answer 2xx raises: raise_for_status for a status, the
\* session for a connection that fails.
RaisedFor(status) ==
    IF status = TransportError THEN "ClientConnectionError" ELSE "ClientResponseError"

\* What renew_token re-raises: the error of its token POST, or the KeyError of an
\* answer without access_token or of a store that is gone.
RenewErrors == {"ClientResponseError", "KeyError"}

\* A fetch cycle without the "except Exception" clause.
UpdateFailed_onlyClientError(err) ==
    IF err \in {"ClientResponseError", "ClientConnectionError"}
    THEN [kind |-> "UpdateFailed", text |-> "Network error"]
    ELSE [kind |-> err, text |-> ""]

\* "except aiohttp.ClientError" and "except Exception" of _async_update_data: the
\* error a fetch cycle ends with, which carries the text of the one it caught.
UpdateFailed(err) ==
    IF err \in {"ClientResponseError", "ClientConnectionError"}
    THEN [kind |-> "UpdateFailed", text |-> "Network error"]
    ELSE [kind |-> "UpdateFailed", text |-> "Error updating data"]

\* "return vehicle_data"
Updated == [kind |-> "ok", text |-> ""]

\* dict.get(key, default)
Get(value, default) == IF value = Absent THEN default ELSE value

\* dict.get('vin', default)
GetVin(value, default) == IF value = AbsentVin THEN default ELSE value

\* "Displayname not present in json result", the default of display_name
NoDisplayName == "Displayname not present in json result"

\* text[-8:]: the last eight characters, or all of them if there are fewer.
Tail8(text) ==
    IF Len(text) <= 8 THEN text ELSE SubSeq(text, Len(text) - 7, Len(text))

\* short_vin
short_vin(info) == Tail8(GetVin(info.vin, UnknownVin))

\* vehicle_identifier, f"{brand} {model} ({short_vin})", as the sequence of its parts
vehicle_identifier(info) ==
    <<Get(info.brand, "Unknown brand"), " ", Get(info.model, "Unknown model"), " (">>
        \o short_vin(info) \o <<")">>

\* name_by_user: "if display_name != ... or display_name != ... or ...", as the
\* sequence of its parts
name_by_user(info) ==
    LET display_name == Get(info.displayName, NoDisplayName)
    IN  IF \/ display_name # NoDisplayName
           \/ display_name # "Unknown"
           \/ display_name # ""
           \/ display_name # "None"
        THEN <<display_name>>
        ELSE <<Get(info.brand, "Unknown brand"), " ", Get(info.model, "Unknown model")>>

\* A descriptor whose name depends on what is registered when it is built.
DeviceInfoOf_stateful(payload) ==
    [identifiers |-> payload.id,
     name |-> vehicle_identifier(payload.information)
                 \o (IF coordinators = {} THEN <<>> ELSE <<" 2">>),
     manufacturer |-> Get(payload.information.brand, "Unknown brand"),
     model |-> Get(payload.information.model, "Unknown model"),
     hw_version |-> "Unknown",
     serial_number |-> GetVin(payload.information.vin, UnknownVin)]

\* The descriptor _async_update_data builds from a vehicle record.
DeviceInfoOf(payload) ==
    LET info == payload.information
    IN  [identifiers |-> payload.id,
         name |-> vehicle_identifier(info),
         manufacturer |-> Get(info.brand, "Unknown brand"),
         model |-> Get(info.model, "Unknown model"),
         hw_version |-> IF info.year # Absent THEN info.year ELSE "Unknown",
         serial_number |-> GetVin(info.vin, UnknownVin)]

\* The end of a fetch cycle.  A scheduled cycle that fails raises UpdateFailed and
\* leaves the coordinator as it is; the first refresh of async_setup_entry either
\* raises ConfigEntryNotReady or lets the setup go on.
EndCycle(e, ok) ==
    /\ fpc' = [fpc EXCEPT ![e] = "idle"]
    /\ bearer' = [bearer EXCEPT ![e] = 0]
    /\ IF setup[e] = "refresh"
         THEN IF ok THEN FinishSetup(e)
                    ELSE /\ setup' = [setup EXCEPT ![e] = "not_loaded"]
                         /\ UNCHANGED <<coordinators, renewal_tasks, timers>>
         ELSE UNCHANGED <<setup, coordinators, renewal_tasks, timers>>

\* A scheduled refresh of a loaded entry sends the first GET.
FetchStart(e) ==
    /\ setup[e] = "loaded"
    /\ fpc[e] = "idle"
    /\ InFlight < MaxInFlight
    /\ fpc' = [fpc EXCEPT ![e] = "get1"]
    /\ bearer' = [bearer EXCEPT ![e] = token_info[e].access_token]
    /\ result' = [result EXCEPT ![e] = NoResult]
    /\ UNCHANGED <<now, entries, switches, update_interval, flow, api, domain, next_id, tokens, renewal_tasks,
                   coordinators, timers, setup, token_info, renewal_attempted,
                   token_lock, tpc, data, device_info>>

\* "if response.status == 401 and not self._renewal_attempted"
TakesRetryBranch(e, status) ==
    status = 401 /\ ~renewal_attempted[e]

\* A cycle that renews on every 401, also on that of the retry GET.
FetchGet401_everyTime(e) ==
    /\ fpc[e] \in {"get1", "get2"}
    /\ renewal_attempted' = [renewal_attempted EXCEPT ![e] = TRUE]
    /\ IF LockIsFree(e)
         THEN /\ token_lock' = [token_lock EXCEPT ![e] = TRUE]
              /\ fpc' = [fpc EXCEPT ![e] = "post"]
         ELSE /\ fpc' = [fpc EXCEPT ![e] = "lockwait"]
              /\ UNCHANGED token_lock
    /\ UNCHANGED <<now, entries, switches, update_interval, flow, api, bearer,
                   device_info, result, domain, next_id, tokens, renewal_tasks,
                   coordinators, timers, setup, token_info, tpc, data>>

\* The first GET answers 401 and the single retry is taken: set the flag and call
\* renew_token, which either takes the lock and sends the token POST or queues.
FetchGet401(e) ==
    /\ fpc[e] = "get1"
    /\ TakesRetryBranch(e, 401)
    /\ renewal_attempted' = [renewal_attempted EXCEPT ![e] = TRUE]
    /\ IF LockIsFree(e)
         THEN /\ token_lock' = [token_lock EXCEPT ![e] = TRUE]
              /\ fpc' = [fpc EXCEPT ![e] = "post"]
         ELSE /\ fpc' = [fpc EXCEPT ![e] = "lockwait"]
              /\ UNCHANGED token_lock
    /\ UNCHANGED <<now, entries, switches, update_interval, flow, api, bearer, device_info, result, domain, next_id, tokens, renewal_tasks,
                   coordinators, timers, setup, token_info, tpc, data>>

\* A GET (the first one outside the retry branch, or the retry) does not answer 2xx,
\* or fails in transport: raise_for_status / ClientError, UpdateFailed.
FetchGetError(e, status) ==
    /\ fpc[e] \in {"get1", "get2"}
    /\ fpc[e] = "get1" => ~TakesRetryBranch(e, status)
    /\ EndCycle(e, FALSE)
    /\ result' = [result EXCEPT ![e] = UpdateFailed(RaisedFor(status))]
    /\ UNCHANGED <<now, entries, switches, update_interval, flow, api, domain, next_id, tokens, token_info,
                   renewal_attempted, token_lock, tpc, data, device_info>>

\* A fetch cycle that would store the looked-up record before testing it.
FetchGetOk_dropsSnapshot(e, found, payload) ==
    /\ fpc[e] \in {"get1", "get2"}
    /\ renewal_attempted' = [renewal_attempted EXCEPT ![e] = FALSE]
    /\ data' = [data EXCEPT ![e] = IF found THEN payload ELSE NoData]
    /\ device_info' = [device_info EXCEPT ![e] =
                          IF found THEN DeviceInfoOf(payload) ELSE NoDeviceInfo]
    /\ result' = [result EXCEPT ![e] = IF found THEN Updated
                                                ELSE UpdateFailed("ValueError")]
    /\ EndCycle(e, found)
    /\ UNCHANGED <<now, entries, switches, update_interval, flow, api, domain, next_id, tokens, token_info,
                   token_lock, tpc>>

\* A GET answers 2xx: the flag is reset, then the vehicle is looked up in the list.
FetchGetOk(e, found, payload) ==
    /\ fpc[e] \in {"get1", "get2"}
    /\ renewal_attempted' = [renewal_attempted EXCEPT ![e] = FALSE]
    /\ data' = IF found THEN [data EXCEPT ![e] = payload] ELSE data
    /\ device_info' = IF found THEN [device_info EXCEPT ![e] = DeviceInfoOf(payload)]
                               ELSE device_info
    /\ result' = [result EXCEPT ![e] = IF found THEN Updated
                                                ELSE UpdateFailed("ValueError")]
    /\ EndCycle(e, found)
    /\ UNCHANGED <<now, entries, switches, update_interval, flow, api, domain, next_id, tokens, token_info,
                   token_lock, tpc>>

\* The fetch cycle's renew_token gets the lock it queued for.
FetchLockAcquired(e) ==
    /\ fpc[e] = "lockwait"
    /\ ~token_lock[e]
    /\ token_lock' = [token_lock EXCEPT ![e] = TRUE]
    /\ fpc' = [fpc EXCEPT ![e] = "post"]
    /\ UNCHANGED <<now, entries, switches, update_interval, flow, api, bearer, device_info, result, domain, next_id, tokens, renewal_tasks,
                   coordinators, timers, setup, token_info, renewal_attempted,
                   tpc, data>>

\* The fetch cycle's renew_token succeeds; the retry GET is sent.
FetchRenewOk(e, expires_in) ==
    /\ fpc[e] = "post"
    /\ domain
    /\ RenewSucceed(e, expires_in)
    /\ fpc' = [fpc EXCEPT ![e] = "get2"]
    \* "headers["Authorization"] = ..." from the rebound self._token_info
    /\ bearer' = [bearer EXCEPT ![e] = token_info'[e].access_token]
    /\ UNCHANGED <<now, entries, switches, update_interval, flow, api, domain, next_id, coordinators, setup, tpc, data,
                   device_info, result>>

\* The fetch cycle's renew_token raises: the token POST failed, or hass.data[DOMAIN]
\* is gone when the new record is to be stored (KeyError).
FetchRenewFail(e) ==
    /\ fpc[e] = "post"
    /\ RenewFail(e)
    /\ EndCycle(e, FALSE)
    /\ \E err \in RenewErrors : result' = [result EXCEPT ![e] = UpdateFailed(err)]
    /\ UNCHANGED <<now, entries, switches, update_interval, flow, api, domain, next_id, tpc, data, device_info>>

\* ------------------------------------------------- the scheduled renewal

\* An armed timer reaches its point in time: the event loop drops it and starts the
\* owner's renew_token, which takes the lock or queues for it.
TimerFire(t) ==
    LET e == t.owner
    IN  /\ t \in timers
        /\ now >= t.at
        /\ tpc[e] = "idle"
        /\ InFlight < MaxInFlight
        /\ timers' = timers \ {t}
        /\ IF LockIsFree(e)
             THEN /\ token_lock' = [token_lock EXCEPT ![e] = TRUE]
                  /\ tpc' = [tpc EXCEPT ![e] = "post"]
             ELSE /\ tpc' = [tpc EXCEPT ![e] = "lockwait"]
                  /\ UNCHANGED token_lock
        /\ UNCHANGED <<now, entries, switches, update_interval, flow, api, bearer, device_info, result, domain, next_id, tokens, renewal_tasks,
                       coordinators, setup, token_info, renewal_attempted, fpc, data>>

\* The timer-fired renew_token gets the lock it queued for.
TimerLockAcquired(e) ==
    /\ tpc[e] = "lockwait"
    /\ ~token_lock[e]
    /\ token_lock' = [token_lock EXCEPT ![e] = TRUE]
    /\ tpc' = [tpc EXCEPT ![e] = "post"]
    /\ UNCHANGED <<now, entries, switches, update_interval, flow, api, bearer, device_info, result, domain, next_id, tokens, renewal_tasks,
                   coordinators, timers, setup, token_info, renewal_attempted,
                   fpc, data>>

\* The timer-fired renew_token succeeds.
TimerRenewOk(e, expires_in) ==
    /\ tpc[e] = "post"
    /\ domain
    /\ RenewSucceed(e, expires_in)
    /\ tpc' = [tpc EXCEPT ![e] = "idle"]
    /\ UNCHANGED <<now, entries, switches, update_interval, flow, api, bearer, device_info, result, domain, next_id, coordinators, setup, fpc, data>>

\* A scheduled renewal that would re-arm its timer when it fails.
TimerRenewFail_rearms(e) ==
    /\ tpc[e] = "post"
    /\ domain
    /\ token_lock' = [token_lock EXCEPT ![e] = FALSE]
    /\ schedule_token_renewal(e, now + DEFAULT_EXPIRES_IN)
    /\ tpc' = [tpc EXCEPT ![e] = "idle"]
    /\ UNCHANGED <<now, entries, switches, update_interval, flow, api, bearer, device_info, result, domain, next_id, coordinators, setup, fpc,
                   data, tokens, token_info, renewal_attempted>>

\* The timer-fired renew_token raises (as in FetchRenewFail); the error goes to the
\* event loop.
TimerRenewFail(e) ==
    /\ tpc[e] = "post"
    /\ RenewFail(e)
    /\ tpc' = [tpc EXCEPT ![e] = "idle"]
    /\ UNCHANGED <<now, entries, switches, update_interval, flow, api, bearer, device_info, result, domain, next_id, coordinators, setup, fpc, data>>

\* ------------------------------------------------------------ config flow

\* EnodeConfigFlow.async_step_user for a client that already has config entries:
\* the stored record is reused while is_token_valid holds and get_vehicles accepts
\* it; otherwise validate_credentials fetches a token and the stored record is
\* replaced.  (The awaits of the step are taken in one piece.)
async_step_user(client, vehicles_ok, answered, expires_in) ==
    LET existing_entries == {e \in Entries : entries[e].client_id = client}
        i == IidOf(CHOOSE e \in existing_entries : TRUE)
        existing_token == tokens[i]
        reuse == is_token_valid(existing_token)
    IN  /\ existing_entries # {}
        /\ domain' = TRUE
        /\ IF (reuse /\ vehicles_ok) \/ ~answered
             THEN UNCHANGED tokens
             ELSE tokens' = [tokens EXCEPT ![i] =
                         [client_id |-> client,
                          client_secret |-> (CHOOSE s \in {entries[e].client_secret :
                                                 e \in existing_entries} : TRUE),
                          access_token |-> NewToken,
                          token_expiry |-> validated_expiry(expires_in)]]
        /\ UNCHANGED <<now, entries, switches, update_interval, flow, api, bearer, device_info, result, next_id, renewal_tasks, coordinators, timers,
                       setup, token_info, renewal_attempted, token_lock, fpc, tpc,
                       data>>

\* The secret the user types for a client.
SecretOf(client) == IF client = "c1" THEN "s1" ELSE "s2"

\* EnodeConfigFlow.async_step_user for a client without config entries, up to the
\* await of validate_credentials: hass.data[DOMAIN] is created if it is missing,
\* the integration id is taken from next_id, and next_id is incremented.
async_step_user_new(client) ==
    LET existing_entries == {e \in Entries : entries[e].client_id = client}
    IN  /\ flow.step = ""
        /\ existing_entries = {}
        /\ next_id \in IntegrationIds
        /\ domain' = TRUE
        /\ next_id' = next_id + 1
        /\ flow' = [flow EXCEPT !.step = "post", !.client = client,
                                !.integration_id = next_id]
        /\ UNCHANGED <<now, entries, switches, update_interval, api, tokens,
                       renewal_tasks, coordinators, timers, setup, token_info,
                       renewal_attempted, token_lock, fpc, tpc, data, bearer,
                       device_info, result>>

\* validate_credentials of that step returns a token: the record is stored under
\* the flow's integration id and get_vehicles is called.  With hass.data[DOMAIN]
\* gone the store raises KeyError and the form is shown again.
FlowTokenOk(expires_in) ==
    /\ flow.step = "post"
    /\ IF domain
         THEN /\ tokens' = [tokens EXCEPT ![flow.integration_id] =
                              [client_id |-> flow.client,
                               client_secret |-> SecretOf(flow.client),
                               access_token |-> NewToken,
                               token_expiry |-> validated_expiry(expires_in)]]
              /\ flow' = [flow EXCEPT !.step = "vehicles"]
         ELSE /\ flow' = [NoFlow EXCEPT !.errors = flow.errors]
              /\ UNCHANGED tokens
    /\ UNCHANGED <<now, entries, switches, update_interval, api, domain, next_id,
                   renewal_tasks, coordinators, timers, setup, token_info,
                   renewal_attempted, token_lock, fpc, tpc, data, bearer,
                   device_info, result>>

\* validate_credentials raises (ValueError), or get_vehicles fails or returns no
\* vehicle: the flow shows its form again or aborts.
FlowFail ==
    /\ flow.step \in {"post", "vehicles"}
    /\ flow' = [NoFlow EXCEPT !.errors = flow.errors]
    /\ UNCHANGED <<now, entries, switches, update_interval, api, domain, next_id,
                   tokens, renewal_tasks, coordinators, timers, setup, token_info,
                   renewal_attempted, token_lock, fpc, tpc, data, bearer,
                   device_info, result>>

\* vol.Range(min=MIN_UPDATE_INTERVAL, max=MAX_UPDATE_INTERVAL) of the interval form
InRange(update_interval_) ==
    MIN_UPDATE_INTERVAL <= update_interval_ /\ update_interval_ <= MAX_UPDATE_INTERVAL

\* The values a user types into an interval field.
IntervalInputs ==
    {MIN_UPDATE_INTERVAL - 1, MIN_UPDATE_INTERVAL, MAX_UPDATE_INTERVAL,
     MAX_UPDATE_INTERVAL + 1}

\* async_step_vehicle, async_step_interval and async_step_sensors: the user picks
\* a vehicle and an interval the form's schema accepts, and async_create_entry
\* stores the config entry with the flow's integration id in a free slot e.
FlowCreateEntry(e, interval) ==
    /\ flow.step = "vehicles"
    /\ entries[e] = NoEntry
    /\ e = CHOOSE f \in Entries : entries[f] = NoEntry
    /\ InRange(interval)
    /\ entries' = [entries EXCEPT ![e] =
                      [client_id |-> flow.client,
                       client_secret |-> SecretOf(flow.client),
                       integration_id |-> flow.integration_id,
                       update_interval |-> interval]]
    /\ flow' = [NoFlow EXCEPT !.errors = flow.errors]
    /\ UNCHANGED <<now, switches, update_interval, api, domain, next_id, tokens,
                   renewal_tasks, coordinators, timers, setup, token_info,
                   renewal_attempted, token_lock, fpc, tpc, data, bearer,
                   device_info, result>>

\* An options step that stores whatever interval it is given.
async_step_init_unchecked(e, interval) ==
    /\ entries[e] # NoEntry
    /\ entries' = [entries EXCEPT ![e].update_interval = interval]
    /\ flow' = [flow EXCEPT !.errors = ""]
    /\ UNCHANGED <<now, switches, update_interval, api, domain, next_id, tokens,
                   renewal_tasks, coordinators, timers, setup, token_info,
                   renewal_attempted, token_lock, fpc, tpc, data, bearer,
                   device_info, result>>

\* EnodeOptionsFlow.async_step_init with a user input for config entry e: an
\* interval outside the bounds sets errors["base"] and shows the form again,
\* another one is stored in the entry's options.  Nothing reloads the entry.
async_step_init(e, interval) ==
    /\ entries[e] # NoEntry
    /\ IF ~InRange(interval)
         THEN /\ flow' = [flow EXCEPT !.errors = "invalid_update_interval"]
              /\ UNCHANGED entries
         ELSE /\ entries' = [entries EXCEPT ![e].update_interval = interval]
              /\ flow' = [flow EXCEPT !.errors = ""]
    /\ UNCHANGED <<now, switches, update_interval, api, domain, next_id, tokens,
                   renewal_tasks, coordinators, timers, setup, token_info,
                   renewal_attempted, token_lock, fpc, tpc, data, bearer,
                   device_info, result>>

\* The host restarts: hass.data, the event loop and every coordinator are gone,
\* the config entries and their options are read back, and async_setup runs.
Restart ==
    /\ domain' = TRUE
    /\ next_id' = 1
    /\ tokens' = EmptyTokens
    /\ renewal_tasks' = EmptyTasks
    /\ coordinators' = {}
    /\ timers' = {}
    /\ setup' = [e \in Entries |-> "not_loaded"]
    /\ token_info' = [e \in Entries |-> NoRecord]
    /\ renewal_attempted' = [e \in Entries |-> FALSE]
    /\ token_lock' = [e \in Entries |-> FALSE]
    /\ fpc' = [e \in Entries |-> "idle"]
    /\ tpc' = [e \in Entries |-> "idle"]
    /\ data' = [e \in Entries |-> NoData]
    /\ bearer' = [e \in Entries |-> 0]
    /\ device_info' = [e \in Entries |-> NoDeviceInfo]
    /\ result' = [e \in Entries |-> NoResult]
    /\ switches' = [e \in Entries |-> [k \in SwitchKinds |-> NoSwitch]]
    /\ update_interval' = [e \in Entries |-> NoInterval]
    /\ flow' = NoFlow
    /\ UNCHANGED <<now, entries, api>>

\* ------------------------------------------------------------------ time

\* The clock moves on.  HTTP calls time out after 10 to 15 seconds, so none is in
\* flight over a tick.
Tick ==
    /\ now < MaxTicks * TickLen
    /\ InFlight = 0
    /\ now' = now + TickLen
    /\ UNCHANGED <<entries, switches, update_interval, flow, api, bearer, device_info, result, domain, next_id, tokens, renewal_tasks, coordinators,
                   timers, setup, token_info, renewal_attempted, token_lock, fpc, tpc,
                   data>>

\* ------------------------------------------------------------------ Next

Statuses == {TransportError, 401, 500}

Next ==
    \/ \E e \in Entries : SetupStart(e)
    \/ \E e \in Entries, x \in ExpiresIn : SetupTokenOk(e, x)
    \/ \E e \in Entries : SetupTokenFail(e)
    \/ \E e \in Entries : async_unload_entry(e)
    \/ \E e \in Entries : FetchStart(e)
    \/ \E e \in Entries : FetchGet401(e)
    \/ \E e \in Entries, st \in Statuses : FetchGetError(e, st)
    \/ \E e \in Entries, found \in BOOLEAN, p \in Payloads : FetchGetOk(e, found, p)
    \/ \E e \in Entries : FetchLockAcquired(e)
    \/ \E e \in Entries, x \in ExpiresIn : FetchRenewOk(e, x)
    \/ \E e \in Entries : FetchRenewFail(e)
    \/ \E t \in timers : TimerFire(t)
    \/ \E e \in Entries : TimerLockAcquired(e)
    \/ \E e \in Entries, x \in ExpiresIn : TimerRenewOk(e, x)
    \/ \E e \in Entries : TimerRenewFail(e)
    \/ Tick

Spec == Init /\ [][Next]_vars

\* One config entry, and a user who runs the config flow again for its client.
InitFlow == InitWith({"e1"})

NextFlow ==
    \/ Next
    \/ \E c \in Clients, v \in BOOLEAN, a \in BOOLEAN, x \in ExpiresIn :
            async_step_user(c, v, a, x)

SpecFlow == InitFlow /\ [][NextFlow]_vars

\* One config entry, and a user who adds the vehicles of other clients, changes
\* options, unloads and reloads entries and restarts the host.
InitConfig == InitWith({"e1"})

NextConfig ==
    \/ \E e \in Entries : SetupStart(e)
    \/ \E e \in Entries, x \in ExpiresIn : SetupTokenOk(e, x)
    \/ \E e \in Entries, p \in Payloads : FetchGetOk(e, TRUE, p)
    \/ \E e \in Entries : async_unload_entry(e)
    \/ \E c \in Clients : async_step_user_new(c)
    \/ FlowTokenOk(DEFAULT_EXPIRES_IN)
    \/ FlowFail
    \/ \E e \in Entries, interval \in IntervalInputs : FlowCreateEntry(e, interval)
    \/ \E e \in Entries, interval \in IntervalInputs : async_step_init(e, interval)
    \/ Restart

SpecConfig == InitConfig /\ [][NextConfig]_vars

\* Two config entries of one OAuth client that are set up and stay loaded, with
\* every HTTP call answered or timed out in the end and every lock that is free
\* and waited for taken in the end.
InitLive == InitWith({"e1", "e2"})

GetAnswered(e) ==
    \/ FetchGet401(e)
    \/ \E st \in Statuses : FetchGetError(e, st)
    \/ \E found \in BOOLEAN, p \in Payloads : FetchGetOk(e, found, p)

FetchRenewAnswered(e) ==
    \/ \E x \in ExpiresIn : FetchRenewOk(e, x)
    \/ FetchRenewFail(e)

TimerRenewAnswered(e) ==
    \/ \E x \in ExpiresIn : TimerRenewOk(e, x)
    \/ TimerRenewFail(e)

Fairness ==
    \A e \in Entries :
        /\ WF_vars(GetAnswered(e))
        /\ WF_vars(FetchLockAcquired(e))
        /\ WF_vars(FetchRenewAnswered(e))
        /\ WF_vars(TimerLockAcquired(e))
        /\ WF_vars(TimerRenewAnswered(e))

NextLive ==
    \/ \E e \in Entries : SetupStart(e)
    \/ \E e \in Entries : SetupTokenOk(e, DEFAULT_EXPIRES_IN)
    \/ \E e \in Entries : FetchStart(e)
    \/ \E e \in Entries : FetchGet401(e)
    \/ \E e \in Entries, st \in Statuses : FetchGetError(e, st)
    \/ \E e \in Entries, p \in Payloads : FetchGetOk(e, TRUE, p)
    \/ \E e \in Entries : FetchLockAcquired(e)
    \/ \E e \in Entries : FetchRenewOk(e, DEFAULT_EXPIRES_IN)
    \/ \E e \in Entries : FetchRenewFail(e)
    \/ \E t \in timers : TimerFire(t)
    \/ \E e \in Entries : TimerLockAcquired(e)
    \/ \E e \in Entries : TimerRenewOk(e, DEFAULT_EXPIRES_IN)
    \/ \E e \in Entries : TimerRenewFail(e)
    \/ Tick

SpecLive == InitLive /\ [][NextLive]_vars /\ Fairness

\* ---------------------------------------------------------------- switches

\* The answer of a precondition check: allowed, refused with a reason, or an error
\* raised while checking.
Can == [can |-> TRUE, reason |-> "", raises |-> ""]
Cannot(reason) == [can |-> FALSE, reason |-> reason, raises |-> ""]
Raises(err) == [can |-> FALSE, reason |-> "", raises |-> err]

\* EnodeChargeControlSwitch._can_start_charging on snapshot d.  None has no get();
\* "battery_level >= target_level" with a level and no limit compares int and None.
can_start_charging(d) ==
    LET charge_state == d.chargeState
    IN  IF charge_state = NullChargeState THEN Raises("AttributeError")
        ELSE IF charge_state.isCharging THEN Cannot("Vehicle is already charging")
        ELSE IF ~charge_state.isPluggedIn THEN Cannot("Vehicle is not plugged in")
        ELSE IF charge_state.isFullyCharged
             THEN Cannot("Vehicle is already fully charged")
        ELSE IF charge_state.batteryLevel = NoLevel THEN Can
        ELSE IF charge_state.chargeLimit = NoLevel THEN Raises("TypeError")
        ELSE IF charge_state.batteryLevel >= charge_state.chargeLimit
             THEN Cannot("Battery level is at or above target")
        ELSE Can

\* A variant that looks at "fully charged" before "plugged in".
can_stop_charging_fullFirst(d) ==
    LET charge_state == d.chargeState
    IN  IF charge_state = NullChargeState
        THEN Cannot("Unable to determine charging status")
        ELSE IF ~charge_state.isCharging
             THEN IF charge_state.isFullyCharged THEN Cannot("Vehicle is fully charged")
                  ELSE IF ~charge_state.isPluggedIn
                       THEN Cannot("Vehicle is not plugged in")
                  ELSE Cannot("Vehicle is not currently charging")
        ELSE Can

\* EnodeChargeControlSwitch._can_stop_charging on snapshot d
can_stop_charging(d) ==
    LET charge_state == d.chargeState
    IN  IF charge_state = NullChargeState
        THEN Cannot("Unable to determine charging status")
        ELSE IF ~charge_state.isCharging
             THEN IF ~charge_state.isPluggedIn THEN Cannot("Vehicle is not plugged in")
                  ELSE IF charge_state.isFullyCharged
                       THEN Cannot("Vehicle is fully charged")
                  ELSE Cannot("Vehicle is not currently charging")
        ELSE Can

\* is_on of switch k of entry e: the optimistic flag while it is set, the snapshot
\* otherwise.
is_on(e, k) ==
    IF switches[e][k].local_state # "None" THEN switches[e][k].local_state
    ELSE IF k = "smart" THEN data[e].isEnabled
    ELSE IF data[e].chargeState = NullChargeState THEN "None"
    ELSE IF data[e].chargeState.isCharging THEN "True" ELSE "False"

\* The check at the head of async_turn_on (on) and async_turn_off (~on).
Precondition(e, k, on) ==
    IF k = "charge"
    THEN IF on THEN can_start_charging(data[e]) ELSE can_stop_charging(data[e])
    ELSE IF on
         THEN IF is_on(e, k) = "True" THEN Cannot("Smart charging is already enabled")
                                      ELSE Can
         ELSE IF is_on(e, k) = "False" THEN Cannot("Smart charging is already disabled")
                                       ELSE Can

\* _last_action, and the body of the control POST
ActionOf(k, on) ==
    IF k = "charge" THEN (IF on THEN "start" ELSE "stop")
                    ELSE (IF on THEN "enable" ELSE "disable")

BodyOf(k, on) ==
    IF k = "charge" THEN (IF on THEN "START" ELSE "STOP")
                    ELSE (IF on THEN "isEnabled: true" ELSE "isEnabled: false")

\* The answers of the control endpoint (TransportError: none).
ControlStatuses == {TransportError, 200, 400, 500}

\* What the try block of _control_charging / _set_smart_charging raises for an
\* answer ("": nothing).
ControlRaises(status) ==
    IF status = 400 THEN "EnodeStateCondition"
    ELSE IF status = TransportError THEN "ClientConnectionError"
    ELSE IF status = 200 THEN ""
    ELSE "ClientResponseError"

\* "except Exception as err: ... raise HomeAssistantError(message)" of the same
\* methods; EnodeStateCondition is a subclass of Exception.
control_except(err) == IF err = "" THEN "" ELSE "HomeAssistantError"

\* The decorator handle_state_condition around async_turn_on / async_turn_off:
\* what the decorated method returns ("True", "False") or raises.
handle_state_condition(raised) ==
    IF raised = "EnodeStateCondition" THEN "False"
    ELSE IF raised = "" THEN "True"
    ELSE raised

\* A variant that sends the token of the coordinator's own copy.
async_turn_ownToken(e, k, on) ==
    LET sw == switches[e][k]
        pre == Precondition(e, k, on)
        new == [sw EXCEPT !.bearer = 0, !.body = "", !.outcome = "", !.notice = "",
                          !.level = "", !.refresh = FALSE]
    IN  /\ setup[e] = "loaded"
        /\ data[e].capable
        /\ sw.pc = "idle"
        /\ switches' = [switches EXCEPT ![e][k] =
              IF pre.raises # ""
              THEN [new EXCEPT !.outcome = handle_state_condition(pre.raises)]
              ELSE IF ~pre.can
              THEN [new EXCEPT !.notice = pre.reason, !.level = "debug",
                               !.outcome = handle_state_condition("EnodeStateCondition")]
              ELSE [new EXCEPT !.local_state = IF on THEN "True" ELSE "False",
                               !.last_action = ActionOf(k, on),
                               !.pc = "post",
                               !.bearer = token_info[e].access_token,
                               !.body = BodyOf(k, on)]]
        /\ UNCHANGED <<now, entries, domain, next_id, tokens, renewal_tasks,
                       coordinators, timers, setup, token_info, renewal_attempted,
                       token_lock, fpc, tpc, data, bearer, device_info, result,
                       update_interval, flow, api>>

\* async_turn_on (on) / async_turn_off (~on) of switch k of entry e, up to the await
\* of the control POST: the precondition check, the optimistic flag, _get_headers
\* (which reads the store) and the request.  A check that refuses shows its reason
\* at debug level and raises EnodeStateCondition; an error raised by the check
\* itself leaves the method as it is.
async_turn(e, k, on) ==
    LET sw == switches[e][k]
        pre == Precondition(e, k, on)
        new == [sw EXCEPT !.bearer = 0, !.body = "", !.outcome = "", !.notice = "",
                          !.level = "", !.refresh = FALSE]
    IN  /\ setup[e] = "loaded"
        /\ data[e].capable
        /\ sw.pc = "idle"
        /\ switches' = [switches EXCEPT ![e][k] =
              IF pre.raises # ""
              THEN [new EXCEPT !.outcome = handle_state_condition(pre.raises)]
              ELSE IF ~pre.can
              THEN [new EXCEPT !.notice = pre.reason, !.level = "debug",
                               !.outcome = handle_state_condition("EnodeStateCondition")]
              ELSE IF ~domain \/ tokens[IidOf(e)] = NoRecord
              THEN \* _get_headers: KeyError / TypeError inside the try
                   [new EXCEPT !.last_action = ActionOf(k, on),
                               !.local_state = "None",
                               !.notice = "Error", !.level = "error",
                               !.outcome =
                                   handle_state_condition(control_except("KeyError"))]
              ELSE [new EXCEPT !.local_state = IF on THEN "True" ELSE "False",
                               !.last_action = ActionOf(k, on),
                               !.pc = "post",
                               !.bearer = tokens[IidOf(e)].access_token,
                               !.body = BodyOf(k, on)]]
        /\ UNCHANGED <<now, entries, domain, next_id, tokens, renewal_tasks,
                       coordinators, timers, setup, token_info, renewal_attempted,
                       token_lock, fpc, tpc, data, bearer, device_info, result,
                       update_interval, flow, api>>

\* A variant whose "except" leaves the optimistic flag as it is.
ControlAnswer_keepsFlag(e, k, status) ==
    LET sw == switches[e][k]
        raised == control_except(ControlRaises(status))
    IN  /\ sw.pc = "post"
        /\ switches' = [switches EXCEPT ![e][k] =
              [sw EXCEPT !.pc = "idle",
                         !.local_state = IF raised = "" THEN "None" ELSE @,
                         !.refresh = (raised = ""),
                         !.notice = IF raised = "" THEN "" ELSE "Error",
                         !.level = IF raised = "" THEN "" ELSE "error",
                         !.outcome = handle_state_condition(raised)]]
        /\ UNCHANGED <<now, entries, domain, next_id, tokens, renewal_tasks,
                       coordinators, timers, setup, token_info, renewal_attempted,
                       token_lock, fpc, tpc, data, bearer, device_info, result,
                       update_interval, flow, api>>

\* The control POST of switch k of entry e is answered (or fails in transport).
\* 400: the server's message is shown at debug level and EnodeStateCondition is
\* raised inside the try.  2xx: the flag is dropped and the coordinator is asked
\* for a refresh.  Whatever the try raises reaches "except Exception", which drops
\* the flag and shows the error at error level.
ControlAnswer(e, k, status) ==
    LET sw == switches[e][k]
        raised == control_except(ControlRaises(status))
    IN  /\ sw.pc = "post"
        /\ switches' = [switches EXCEPT ![e][k] =
              [sw EXCEPT !.pc = "idle",
                         !.local_state = "None",
                         !.refresh = (raised = ""),
                         !.notice = IF raised = "" THEN ""
                                    ELSE IF status = 400 THEN "Error: server message"
                                    ELSE "Error",
                         !.level = IF raised = "" THEN "" ELSE "error",
                         !.outcome = handle_state_condition(raised)]]
        /\ UNCHANGED <<now, entries, domain, next_id, tokens, renewal_tasks,
                       coordinators, timers, setup, token_info, renewal_attempted,
                       token_lock, fpc, tpc, data, bearer, device_info, result,
                       update_interval, flow, api>>

\* One config entry whose vehicle can be controlled: its setup, whose first refresh
\* gets any record of the vehicle, and the control actions of its switches on that
\* snapshot.
InitControl == InitWith({"e1"})

NextControl ==
    \/ \E e \in Entries : SetupStart(e)
    \/ \E e \in Entries, x \in ExpiresIn : SetupTokenOk(e, x)
    \/ \E e \in Entries, p \in ControlPayloads : FetchGetOk(e, TRUE, p)
    \/ \E e \in Entries, k \in SwitchKinds, on \in BOOLEAN : async_turn(e, k, on)
    \/ \E e \in Entries, k \in SwitchKinds, st \in ControlStatuses :
            ControlAnswer(e, k, st)

SpecControl == InitControl /\ [][NextControl]_vars

\* ================================================================= claims

\* A renew_token of coordinator e has just succeeded (on either path).
RenewedBy(e) ==
    \E x \in ExpiresIn : FetchRenewOk(e, x) \/ TimerRenewOk(e, x)

\* C1: once any coordinator's renew_token has succeeded, every registered
\* coordinator of the same integration holds the record that is now in the
\* Credential Store, so its next fetch sends the new access token.
C1_SharersSeeRenewal ==
    [][\A e \in coordinators : RenewedBy(e) =>
          \A c \in coordinators' :
              IidOf(c) = IidOf(e) => token_info'[c] = tokens'[IidOf(e)]]_vars

\* Registered coordinators of integration i whose renew_token has its token POST
\* in flight.
RenewalsInFlight(i) ==
    {e \in coordinators : IidOf(e) = i /\ (fpc[e] = "post" \/ tpc[e] = "post")}

\* C2: at most one renewal request per integration is in flight at any time.
C2_OneRenewalInFlight ==
    \A i \in IntegrationIds : Cardinality(RenewalsInFlight(i)) <= 1

\* C3: in a fetch cycle a 401 on the first GET leads to renew_token (the cycle does
\* not end on that answer), a successful renew_token is followed by the retry GET,
\* and after the retry GET the cycle ends without another GET or renewal.
C3_OneRetryPerCycle ==
    [][\A e \in Entries :
          /\ ~(fpc[e] = "get1" /\ FetchGetError(e, 401))
          /\ (fpc[e] = "post" /\ RenewedBy(e)) => fpc'[e] = "get2"
          /\ fpc[e] = "get2" => fpc'[e] \in {"get2", "idle"}]_vars

\* C4: while no fetch cycle of a loaded entry's coordinator is executing, its
\* renewal_attempted flag is false.
C4_FlagOnlyInRetryWindow ==
    \A e \in Entries : (setup[e] = "loaded" /\ fpc[e] = "idle") => ~renewal_attempted[e]

\* Armed timers whose renew_token belongs to integration i.
TimersOf(i) == {t \in timers : IidOf(t.owner) = i}

\* C5: at most one renewal timer is armed per integration.
C5_OneTimerPerIntegration ==
    \A i \in IntegrationIds : Cardinality(TimersOf(i)) <= 1

\* C6: an armed renewal timer fires TOKEN_EXPIRY_BUFFER seconds before the expiry of
\* the record the Credential Store holds for its integration.
C6_TimerMatchesStore ==
    \A t \in timers :
        /\ tokens[IidOf(t.owner)] # NoRecord
        /\ t.at = tokens[IidOf(t.owner)].token_expiry - TOKEN_EXPIRY_BUFFER

\* C7: the record stored by a token acquisition of async_setup_entry or by a renewal
\* expires expires_in seconds after now (3600 when the answer has no expires_in).
C7_ExpiryFromServerTtl ==
    [][\A e \in Entries, x \in ExpiresIn :
          (((SetupTokenOk(e, x) /\ domain) \/ FetchRenewOk(e, x) \/ TimerRenewOk(e, x))
            => tokens'[IidOf(e)].token_expiry = validated_expiry(x))]_vars

\* The handle belongs to a timer that is armed.
Armed(h) == \E t \in timers : t.h = h

\* C8: async_unload_entry removes the record of the entry's integration and cancels
\* the timer stored for it when no other registered coordinator has that
\* integration, and leaves record, stored handle and timers alone when one has.
C8_UnloadCleansUpLast ==
    [][\A e \in Entries : async_unload_entry(e) =>
          LET i == IidOf(e)
          IN  IF \E c \in coordinators \ {e} : IidOf(c) = i
              THEN /\ tokens'[i] = tokens[i]
                   /\ renewal_tasks'[i] = renewal_tasks[i]
                   /\ timers' = timers
              ELSE /\ tokens'[i] = NoRecord
                   /\ renewal_tasks'[i] = 0
                   /\ timers' = {t \in timers : t.h # renewal_tasks[i]}]_vars

\* An entry was loaded and then unloaded as the last one of its integration while a
\* coordinator of another integration stays registered: record and timer are gone.
C8_Witness ==
    \E e \in Entries :
        /\ setup[e] = "not_loaded" /\ e \notin coordinators /\ data[e] # NoData
        /\ domain
        /\ \E c \in coordinators : IidOf(c) # IidOf(e)
        /\ tokens[IidOf(e)] = NoRecord
        /\ renewal_tasks[IidOf(e)] = 0
        /\ TimersOf(IidOf(e)) = {}

\* async_setup_entry has just finished for e.
SetupFinished(e) == setup[e] = "refresh" /\ setup'[e] = "loaded"

C10_FailedRenewalChangesNothing ==
    [][\A e \in Entries :
          (FetchRenewFail(e) \/ TimerRenewFail(e)) =>
            /\ tokens' = tokens
            /\ token_info' = token_info
            /\ renewal_tasks' = renewal_tasks
            /\ timers' = timers
            /\ ~token_lock'[e]
            /\ (fpc[e] = "post" => fpc'[e] = "idle")
            /\ (tpc[e] = "post" => tpc'[e] = "idle")]_vars

\* A loaded entry's fetch cycle has ended on a failed renew_token: the flag set for
\* the retry is still up, the record, the token reference and the timer are there,
\* the lock is free.
C10_Witness ==
    \E e \in Entries :
        /\ setup[e] = "loaded" /\ fpc[e] = "idle" /\ renewal_attempted[e]
        /\ ~token_lock[e]
        /\ token_info[e] = tokens[IidOf(e)]
        /\ Armed(renewal_tasks[IidOf(e)])

\* C11 as stated: when a renewal started by the timer has failed, no renewal timer
\* is armed for its integration.
C11_NoTimerAfterScheduledFailure ==
    [][\A e \in Entries :
          TimerRenewFail(e) => \A t \in timers' : IidOf(t.owner) # IidOf(e)]_vars

\* C11, amended: a renewal started by the timer that fails arms no timer, stores no
\* handle and is not tried again (its task ends, no fetch cycle is touched); and a
\* timer is armed only by a renew_token that succeeds or by an async_setup_entry
\* that finishes.
C11_ScheduledFailureArmsNothing ==
    [][/\ \A e \in Entries :
             TimerRenewFail(e) =>
                /\ timers' = timers
                /\ renewal_tasks' = renewal_tasks
                /\ tpc'[e] = "idle"
                /\ fpc' = fpc
       /\ (timers' \ timers # {}) =>
             \E e \in Entries : RenewedBy(e) \/ SetupFinished(e)]_vars

\* The timer of a loaded entry has fired and its renewal has failed: the record is
\* the one that is about to expire, the stored handle is the one of the timer that
\* fired, and no timer is armed for the integration.
C11_Witness ==
    \E e \in coordinators :
        /\ setup[e] = "loaded" /\ tpc[e] = "idle" /\ fpc[e] = "idle"
        /\ tokens[IidOf(e)] # NoRecord
        /\ now >= tokens[IidOf(e)].token_expiry - TOKEN_EXPIRY_BUFFER
        /\ renewal_tasks[IidOf(e)] # 0
        /\ TimersOf(IidOf(e)) = {}

\* The first refresh of async_setup_entry ends in an error.
FirstFetchFails(e) ==
    /\ setup[e] = "refresh"
    /\ \/ \E st \in Statuses : FetchGetError(e, st)
       \/ \E p \in Payloads : FetchGetOk(e, FALSE, p)
       \/ FetchRenewFail(e)

\* C12: an async_setup_entry whose token POST fails ends not loaded and leaves no
\* trace (it stores no record, registers no coordinator, and no timer is armed for
\* the entry's coordinator); one whose first fetch fails ends not loaded with no
\* coordinator registered and no timer armed for the entry's coordinator.
C12_FailedSetupLeavesNoTrace ==
    [][\A e \in Entries :
          /\ SetupTokenFail(e) =>
                /\ setup'[e] = "not_loaded"
                /\ tokens' = tokens
                /\ e \notin coordinators'
                /\ \A t \in timers' : t.owner # e
          /\ FirstFetchFails(e) =>
                /\ setup'[e] = "not_loaded"
                /\ e \notin coordinators'
                /\ \A t \in timers' : t.owner # e]_vars

\* C13: in a fetch cycle a 401 on the first GET sets renewal_attempted and starts
\* renew_token without sending a GET; the retry GET is sent only when that
\* renew_token has succeeded, and it carries the access token of the record the
\* renewal has stored, not the one of the first GET; when the retry GET succeeds
\* the cycle ends with renewal_attempted false.
C13_RenewThenRetryWithNewToken ==
    [][\A e \in Entries :
          /\ ~(fpc[e] = "get1" /\ FetchGetError(e, 401))
          /\ FetchGet401(e) =>
                /\ renewal_attempted'[e]
                /\ fpc'[e] \in {"lockwait", "post"}
                /\ bearer'[e] = bearer[e]
          /\ (fpc'[e] = "get2" /\ fpc[e] # "get2") =>
                /\ fpc[e] = "post"
                /\ tokens'[IidOf(e)] # tokens[IidOf(e)]
                /\ bearer'[e] = tokens'[IidOf(e)].access_token
                /\ bearer'[e] # bearer[e]
          /\ (fpc[e] = "get2" /\ \E p \in Payloads : FetchGetOk(e, TRUE, p)) =>
                /\ ~renewal_attempted'[e]
                /\ fpc'[e] = "idle"]_vars

\* The fetch cycle of e ends in this step.
CycleEnds(e) == fpc[e] # "idle" /\ fpc'[e] = "idle"

\* C14: a fetch cycle ends with UpdateFailed when a GET gets a status that is not
\* 2xx outside the retry branch (any such status on the first GET but a 401 that is
\* retried, a 401 with renewal_attempted set, any on the retry GET), when a GET
\* fails in transport, when renew_token fails, and when a 2xx answer has no record
\* of the vehicle; and a cycle that ends, ends with the snapshot or UpdateFailed.
C14_FailuresAreUpdateFailed ==
    [][\A e \in Entries :
          /\ ((\E st \in Statuses : FetchGetError(e, st))
                 \/ FetchRenewFail(e)
                 \/ (\E p \in Payloads : FetchGetOk(e, FALSE, p)))
                => (CycleEnds(e) /\ result'[e].kind = "UpdateFailed")
          /\ CycleEnds(e) => result'[e].kind \in {"ok", "UpdateFailed"}
          /\ (CycleEnds(e) /\ result'[e].kind = "ok")
                => \E p \in Payloads : FetchGetOk(e, TRUE, p)]_vars

\* A loaded entry's cycle has ended with UpdateFailed on an error that is not a
\* ClientError, outside a retry (a 2xx answer without the vehicle).
C14_Witness ==
    \E e \in coordinators :
        /\ setup[e] = "loaded" /\ fpc[e] = "idle"
        /\ ~renewal_attempted[e]
        /\ result[e] = UpdateFailed("ValueError")

\* C20: a fetch cycle that ends with UpdateFailed leaves the coordinator's snapshot
\* and its device descriptor as they were (nothing but the end of a successful
\* cycle, or a new setup of the entry, changes them), and a loaded entry stays
\* loaded with no cycle running, so that the next scheduled cycle can start.
C20_FailedCycleKeepsSnapshot ==
    [][\A e \in Entries :
          /\ (CycleEnds(e) /\ result'[e].kind = "UpdateFailed") =>
                /\ data'[e] = data[e]
                /\ device_info'[e] = device_info[e]
                /\ setup[e] = "loaded" => setup'[e] = "loaded"
          /\ (data'[e] # data[e] \/ device_info'[e] # device_info[e]) =>
                \/ CycleEnds(e) /\ result'[e].kind = "ok"
                \/ setup[e] # "refresh" /\ setup'[e] = "refresh"]_vars

\* A loaded entry's cycle has ended with UpdateFailed and the coordinator still has
\* the snapshot and the descriptor of an earlier cycle.
C20_Witness ==
    \E e \in coordinators :
        /\ setup[e] = "loaded" /\ fpc[e] = "idle"
        /\ result[e].kind = "UpdateFailed"
        /\ data[e] # NoData
        /\ device_info[e] = DeviceInfoOf(data[e])

\* The record entry e's vehicle endpoint answers with in SpecSwitch: for e1 a
\* vehicle that is plugged in and not charging, with smart charging off; for e2 a
\* vehicle without control capabilities.
SwitchPayloads(e) ==
    IF e = "e1"
    THEN {[id |-> "vehicle", capable |-> TRUE, isEnabled |-> "False",
           information |-> FullInformation,
           chargeState |-> [isCharging |-> FALSE, isPluggedIn |-> TRUE,
                            isFullyCharged |-> FALSE, batteryLevel |-> 50,
                            chargeLimit |-> 80]]}
    ELSE Payloads

\* Two config entries of one OAuth client: their setups, their refresh cycles with
\* the renewal on a 401, and the control actions of e1's switches.
InitSwitch == InitWith({"e1", "e2"})

NextSwitch ==
    \/ \E e \in Entries : SetupStart(e)
    \/ \E e \in Entries, x \in ExpiresIn : SetupTokenOk(e, x)
    \/ \E e \in Entries : FetchStart(e)
    \/ \E e \in Entries : FetchGet401(e)
    \/ \E e \in Entries, x \in ExpiresIn : FetchRenewOk(e, x)
    \/ \E e \in Entries : \E p \in SwitchPayloads(e) : FetchGetOk(e, TRUE, p)
    \/ \E e \in Entries, k \in SwitchKinds, on \in BOOLEAN : async_turn(e, k, on)
    \/ \E e \in Entries, k \in SwitchKinds, st \in ControlStatuses :
            ControlAnswer(e, k, st)

SpecSwitch == InitSwitch /\ [][NextSwitch]_vars

\* Two config entries of one OAuth client whose vehicle records carry any
\* "information" object: their setups and their refresh cycles, with the renewal
\* on a 401.
InitDisplay == InitWith({"e1", "e2"})

NextDisplay ==
    \/ \E e \in Entries : SetupStart(e)
    \/ \E e \in Entries, x \in ExpiresIn : SetupTokenOk(e, x)
    \/ \E e \in Entries : FetchStart(e)
    \/ \E e \in Entries : FetchGet401(e)
    \/ \E e \in Entries, x \in ExpiresIn : FetchRenewOk(e, x)
    \/ \E e \in Entries, p \in DisplayPayloads : FetchGetOk(e, TRUE, p)

SpecDisplay == InitDisplay /\ [][NextDisplay]_vars

\* C15: a 400 answer to a control POST ends the action with the no-op result False
\* and the server's message as a notice below error level; every other answer that
\* is not 2xx, and a transport failure, ends it with HomeAssistantError and an
\* error-level message.
C15_Status400IsStateCondition ==
    [][\A e \in Entries, k \in SwitchKinds, st \in ControlStatuses :
          ControlAnswer(e, k, st) =>
             IF st = 400
             THEN /\ switches'[e][k].outcome = "False"
                  /\ switches'[e][k].level # "error"
             ELSE st # 200 =>
                  /\ switches'[e][k].outcome = "HomeAssistantError"
                  /\ switches'[e][k].level = "error"]_vars

\* The snapshot says: not charging, plugged in, not fully charged, battery level
\* unknown or strictly below the charge limit.
StartAllowed(d) ==
    /\ d.chargeState # NullChargeState
    /\ ~d.chargeState.isCharging
    /\ d.chargeState.isPluggedIn
    /\ ~d.chargeState.isFullyCharged
    /\ \/ d.chargeState.batteryLevel = NoLevel
       \/ /\ d.chargeState.chargeLimit # NoLevel
          /\ d.chargeState.batteryLevel < d.chargeState.chargeLimit

\* The first check that fails, in the order charging, plugged in, fully charged,
\* level against limit.
StartRefusal(d) ==
    IF d.chargeState # NullChargeState /\ d.chargeState.isCharging
    THEN "Vehicle is already charging"
    ELSE IF d.chargeState = NullChargeState \/ ~d.chargeState.isPluggedIn
    THEN "Vehicle is not plugged in"
    ELSE IF d.chargeState.isFullyCharged THEN "Vehicle is already fully charged"
    ELSE "Battery level is at or above target"

\* C16: async_turn_on of the charge-control switch issues the POST with action
\* START exactly when the snapshot allows the start; otherwise it returns False
\* with the first failing check as the reason, issues no POST, asks for no refresh
\* and leaves the optimistic flag and last_action as they were.
C16_StartChargingPrecondition ==
    [][\A e \in Entries :
          async_turn(e, "charge", TRUE) =>
             LET old == switches[e]["charge"]
                 new == switches'[e]["charge"]
             IN  IF StartAllowed(data[e])
                 THEN new.pc = "post" /\ new.body = "START"
                 ELSE /\ new.pc = "idle" /\ new.body = ""
                      /\ new.outcome = "False"
                      /\ new.notice = StartRefusal(data[e])
                      /\ ~new.refresh
                      /\ new.local_state = old.local_state
                      /\ new.last_action = old.last_action]_vars

\* The reason a stop is refused for, of the three: not plugged in, fully charged,
\* not currently charging.
StopRefusal(d) ==
    IF d.chargeState = NullChargeState \/ ~d.chargeState.isPluggedIn
    THEN "Vehicle is not plugged in"
    ELSE IF d.chargeState.isFullyCharged THEN "Vehicle is fully charged"
    ELSE "Vehicle is not currently charging"

\* async_turn_off of the charge-control switch issues the POST with action STOP
\* exactly when the snapshot's chargeState says the vehicle is charging; otherwise
\* it returns False, issues no POST, leaves the optimistic flag alone and reports
\* reason(d).
StopChargingPrecondition(reason(_)) ==
    \A e \in Entries :
          async_turn(e, "charge", FALSE) =>
             LET old == switches[e]["charge"]
                 new == switches'[e]["charge"]
                 d == data[e]
             IN  IF d.chargeState # NullChargeState /\ d.chargeState.isCharging
                 THEN new.pc = "post" /\ new.body = "STOP"
                 ELSE /\ new.pc = "idle" /\ new.body = ""
                      /\ new.outcome = "False"
                      /\ new.notice = reason(d)
                      /\ new.local_state = old.local_state

\* C17 as stated: a stop is issued iff the snapshot says the vehicle is charging,
\* and a refused stop reports "not plugged in", else "fully charged", else "not
\* currently charging".
C17_StopChargingThreeReasons == [][StopChargingPrecondition(StopRefusal)]_vars

\* The reason of a refused stop, with the case of a snapshot without chargeState.
StopRefusalOrUnknown(d) ==
    IF d.chargeState = NullChargeState THEN "Unable to determine charging status"
    ELSE StopRefusal(d)

\* C17, amended: a stop is issued iff the snapshot says the vehicle is charging,
\* and a refused stop reports "unable to determine charging status" when the
\* snapshot's chargeState is null, else "not plugged in", else "fully charged",
\* else "not currently charging".
C17_StopChargingPrecondition ==
    [][StopChargingPrecondition(StopRefusalOrUnknown)]_vars

\* A stop was refused on a plugged-in, fully charged vehicle that is not charging.
C17_Witness ==
    \E e \in coordinators :
        /\ data[e].chargeState # NullChargeState
        /\ switches[e]["charge"].pc = "idle"
        /\ switches[e]["charge"].outcome = "False"
        /\ switches[e]["charge"].notice = "Vehicle is fully charged"
        /\ data[e].chargeState.isPluggedIn
        /\ data[e].chargeState.isFullyCharged
        /\ ~data[e].chargeState.isCharging

\* C18: a control action that passes its check has the optimistic flag at the
\* requested value when its POST is issued and while it is in flight; when the
\* action has finished, whatever the answer, the flag is None again and is_on is
\* what the snapshot says.
C18_OptimisticFlagReverts ==
    [][\A e \in Entries, k \in SwitchKinds :
          LET old == switches[e][k]
              new == switches'[e][k]
          IN  /\ \A on \in BOOLEAN :
                    (async_turn(e, k, on) /\ new.pc = "post") =>
                        new.local_state = (IF on THEN "True" ELSE "False")
              /\ \A st \in ControlStatuses :
                    ControlAnswer(e, k, st) =>
                        /\ old.local_state = (IF old.body \in {"START", "isEnabled: true"}
                                              THEN "True" ELSE "False")
                        /\ new.local_state = "None"
                        /\ is_on(e, k)' = (IF k = "smart" THEN data[e].isEnabled
                                           ELSE IF data[e].chargeState = NullChargeState
                                                THEN "None"
                                           ELSE IF data[e].chargeState.isCharging
                                                THEN "True" ELSE "False")]_vars

\* A control action that was rejected with 400 has finished with the flag dropped
\* while the snapshot still says the opposite of what was requested.
C18_Witness ==
    \E e \in coordinators :
        /\ switches[e]["smart"].pc = "idle"
        /\ switches[e]["smart"].last_action = "enable"
        /\ switches[e]["smart"].notice = "Error: server message"
        /\ switches[e]["smart"].local_state = "None"
        /\ data[e].isEnabled = "False"

\* C19: a control action issues at most one POST, carrying the access token of the
\* record the store holds for the coordinator's integration at that moment; a
\* coordinator refresh is requested exactly when that POST is answered 2xx, and
\* never after a 400, another failure or a refused precondition.
C19_OnePostWithStoreToken ==
    [][\A e \in Entries, k \in SwitchKinds :
          LET old == switches[e][k]
              new == switches'[e][k]
          IN  /\ \A on \in BOOLEAN :
                    async_turn(e, k, on) =>
                        /\ ~new.refresh
                        /\ IF new.pc = "post"
                             THEN new.bearer = tokens[IidOf(e)].access_token
                             ELSE new.bearer = 0
              /\ \A st \in ControlStatuses :
                    ControlAnswer(e, k, st) =>
                        /\ new.pc = "idle"
                        /\ new.bearer = old.bearer /\ new.body = old.body
                        /\ new.refresh <=> st = 200]_vars

\* A control POST that carried a token renewed by the sharing coordinator, not the
\* one this switch's coordinator holds, was answered 2xx.
C19_Witness ==
    \E e \in coordinators :
        \E k \in SwitchKinds :
            /\ switches[e][k].pc = "idle"
            /\ switches[e][k].refresh
            /\ switches[e][k].bearer = tokens[IidOf(e)].access_token
            /\ switches[e][k].bearer # token_info[e].access_token

\* The name the derivation is to give: displayName when the record has one, else
\* brand and model, each replaced by its placeholder when absent.
DisplayName(info) ==
    IF info.displayName # Absent THEN <<info.displayName>>
    ELSE <<Get(info.brand, "Unknown brand"), " ", Get(info.model, "Unknown model")>>

\* C21: for the vehicle record of every successful fetch, the derived user-facing
\* name is displayName when the record has one, and "{brand} {model}" with
\* placeholders for an absent brand or model when it has none.
C21_DisplayNameFallback ==
    \A e \in Entries :
        (result[e] = Updated /\ data[e] # NoData) =>
            name_by_user(data[e].information) = DisplayName(data[e].information)

C23_UpdateIntervalWithinBounds ==
    /\ [](\A e \in Entries :
             /\ update_interval[e] # NoInterval =>
                    /\ MIN_UPDATE_INTERVAL <= update_interval[e]
                    /\ update_interval[e] <= MAX_UPDATE_INTERVAL
             /\ (update_interval[e] # NoInterval /\ entries[e].update_interval = NoOption)
                    => update_interval[e] = DEFAULT_UPDATE_INTERVAL)
    /\ [][\A e \in Entries, interval \in IntervalInputs :
             (async_step_init(e, interval)
                 /\ (interval < MIN_UPDATE_INTERVAL \/ interval > MAX_UPDATE_INTERVAL))
             => (entries' = entries /\ flow'.errors # "")]_vars

\* An options step has just been refused, a coordinator runs with the largest
\* interval, which its entry's options hold, and another one, whose entry has no
\* interval option, runs with the default.
C23_Witness ==
    /\ flow.errors = "invalid_update_interval"
    /\ \E e \in coordinators :
          /\ update_interval[e] = MAX_UPDATE_INTERVAL
          /\ entries[e].update_interval = MAX_UPDATE_INTERVAL
    /\ \E e \in coordinators :
          /\ entries[e].update_interval = NoOption
          /\ update_interval[e] = DEFAULT_UPDATE_INTERVAL

\* C26: two config entries have the same integration_id only if they have the
\* same client_id.
C26_IntegrationIdPerClient ==
    \A a, b \in Entries :
        (entries[a] # NoEntry /\ entries[b] # NoEntry /\ IidOf(a) = IidOf(b))
            => entries[a].client_id = entries[b].client_id

\* C24: whenever the record stored for an integration is replaced by another
\* record, the new one is complete: a new access token together with the expiry
\* computed at that moment, and the client id and secret of the old one; and a
\* coordinator that holds the stored access token holds the stored record.
C24_RecordReplacedAsAWhole ==
    /\ [](\A e \in Entries :
             (entries[e] # NoEntry /\ token_info[e] # NoRecord
                 /\ token_info[e].access_token = tokens[IidOf(e)].access_token)
             => token_info[e] = tokens[IidOf(e)])
    /\ [][\A i \in IntegrationIds :
             (tokens[i] # NoRecord /\ tokens'[i] # NoRecord /\ tokens'[i] # tokens[i])
             => /\ tokens'[i].client_id = tokens[i].client_id
                /\ tokens'[i].client_secret = tokens[i].client_secret
                /\ tokens'[i].access_token # tokens[i].access_token
                /\ \A e \in Entries :
                      tokens'[i].access_token # token_info[e].access_token
                /\ tokens'[i].token_expiry = now + DEFAULT_EXPIRES_IN]_vars

\* The stored record was renewed after the clock moved on, and a sharing
\* coordinator still holds the complete record of before.
C24_Witness ==
    \E i \in IntegrationIds, e \in coordinators :
        /\ IidOf(e) = i
        /\ tokens[i].token_expiry = TickLen + DEFAULT_EXPIRES_IN
        /\ token_info[e].token_expiry = DEFAULT_EXPIRES_IN
        /\ token_info[e].access_token # tokens[i].access_token

\* Integration i has been torn down: no record in the store, no coordinator
\* registered and no entry of it being set up.
TornDown(i) ==
    /\ tokens[i] = NoRecord
    /\ \A e \in Entries :
          (entries[e] # NoEntry /\ IidOf(e) = i) =>
              (e \notin coordinators /\ setup[e] = "not_loaded")

\* C27: when a scheduled renew_token call that was suspended at its token POST
\* completes after its integration has been torn down, the integration still has
\* no record in the store and no armed renewal timer.
C27_TeardownIsFinal ==
    [][\A e \in Entries, x \in ExpiresIn :
          (TimerRenewOk(e, x) /\ TornDown(IidOf(e)))
          => /\ tokens'[IidOf(e)] = NoRecord
             /\ \A t \in timers' : IidOf(t.owner) # IidOf(e)]_vars

\* C28: a setup that was suspended at its token POST or at its first fetch goes on
\* when the call succeeds, whatever was unloaded in between: after the token POST
\* the first refresh starts, and after the first fetch the entry is loaded, its
\* coordinator registered and a renewal timer armed for its integration.
C28_SetupSurvivesUnload ==
    [][\A e \in Entries :
          /\ \A x \in ExpiresIn :
                SetupTokenOk(e, x) => setup'[e] = "refresh"
          /\ \A p \in Payloads :
                (FetchGetOk(e, TRUE, p) /\ setup[e] = "refresh") =>
                    /\ setup'[e] = "loaded"
                    /\ e \in coordinators'
                    /\ \E t \in timers' : IidOf(t.owner) = IidOf(e)]_vars

\* C29: every armed renewal timer is bound to a coordinator that is registered;
\* in particular none is bound to a coordinator that has just been unloaded.
C29_TimerOwnerIsRegistered ==
    [][\A e \in Entries :
          async_unload_entry(e) => \A t \in timers' : t.owner \in coordinators']_vars

\* The steps of a fetch cycle: a first GET; then the end, or the renewal, reached
\* at once or after one wait for the lock; after the renewal the end or the retry
\* GET; after the retry GET the end.
CycleStep(from, to) ==
    \/ from = "idle" /\ to = "get1"
    \/ from = "get1" /\ to \in {"idle", "post", "lockwait"}
    \/ from = "lockwait" /\ to = "post"
    \/ from = "post" /\ to \in {"idle", "get2"}
    \/ from = "get2" /\ to = "idle"

\* C25: a fetch cycle sends at most two GETs, calls renew_token at most once and
\* waits for the lock at most once, and every cycle that has started ends, given
\* that HTTP calls are answered and renewals in progress finish.
C25_FetchCycleTerminates ==
    /\ [][\A e \in Entries : fpc'[e] # fpc[e] => CycleStep(fpc[e], fpc'[e])]_vars
    /\ \A e \in Entries : (fpc[e] # "idle") ~> (fpc[e] = "idle")

\* A fetch cycle waits for the lock that the coordinator's scheduled renewal
\* holds, with the sharing coordinator registered as well.
C25_Witness ==
    \E e, o \in coordinators :
        /\ e # o
        /\ fpc[e] = "lockwait" /\ tpc[e] = "post" /\ token_lock[e]

\* ---------------------------------------------------------------------------
\* Recovery of a coordinator after a failed renewal.  The Enode API rejects the
\* access tokens in api.rejects with a 401 and accepts every other one; the
\* token endpoint may fail until api.up and answers every POST from then on.
\* ---------------------------------------------------------------------------

\* The API invalidates issued tokens only while fewer than this many are invalid.
MaxRevoked == 1

\* The access tokens issued so far and still held somewhere.
IssuedTokens ==
    ({tokens[i].access_token : i \in IntegrationIds}
        \cup {token_info[e].access_token : e \in Entries}) \ {NoRecord.access_token}

\* The API invalidates every token it has issued.
ApiRevoke ==
    /\ ~api.up
    /\ IssuedTokens # {}
    /\ ~(IssuedTokens \subseteq api.rejects)
    /\ Cardinality(api.rejects) < MaxRevoked
    /\ api' = [api EXCEPT !.rejects = @ \cup IssuedTokens]
    /\ UNCHANGED <<now, entries, switches, update_interval, flow, domain, next_id, tokens,
                   renewal_tasks, coordinators, timers, setup, token_info,
                   renewal_attempted, token_lock, fpc, tpc, data, bearer,
                   device_info, result>>

\* From here on the token endpoint answers every POST with a token.
ApiUp ==
    /\ ~api.up
    /\ api' = [api EXCEPT !.up = TRUE]
    /\ UNCHANGED <<now, entries, switches, update_interval, flow, domain, next_id, tokens,
                   renewal_tasks, coordinators, timers, setup, token_info,
                   renewal_attempted, token_lock, fpc, tpc, data, bearer,
                   device_info, result>>

\* The API's answer to a GET of the fetch cycle: the vehicle list for an accepted
\* token, a 401 for a rejected one.
ApiGetOk(e) ==
    /\ bearer[e] \notin api.rejects
    /\ \E p \in Payloads : FetchGetOk(e, TRUE, p)

ApiGet401(e) ==
    /\ bearer[e] \in api.rejects
    /\ \/ FetchGet401(e)
       \/ FetchGetError(e, 401)

\* The token endpoint's answer to the POST of the fetch cycle's renewal.
ApiRenewOk(e) == FetchRenewOk(e, DEFAULT_EXPIRES_IN)

ApiRenewFail(e) ==
    /\ ~api.up
    /\ FetchRenewFail(e)

InitRecover == InitWith({"e1", "e2"})

NextRecover ==
    \/ \E e \in Entries : SetupStart(e)
    \/ \E e \in Entries : SetupTokenOk(e, DEFAULT_EXPIRES_IN)
    \/ \E e \in Entries : FetchStart(e)
    \/ \E e \in Entries : ApiGetOk(e)
    \/ \E e \in Entries : ApiGet401(e)
    \/ \E e \in Entries : ApiRenewOk(e)
    \/ \E e \in Entries : ApiRenewFail(e)
    \/ ApiRevoke
    \/ ApiUp

\* Fetch cycles keep being scheduled and every HTTP call is answered.
FairnessRecover ==
    \A e \in Entries :
        /\ WF_vars(FetchStart(e))
        /\ WF_vars(ApiGetOk(e) \/ ApiGet401(e))
        /\ WF_vars(ApiRenewOk(e) \/ ApiRenewFail(e))

SpecRecover == InitRecover /\ [][NextRecover]_vars /\ FairnessRecover

\* C30: once the token endpoint answers every POST and the API accepts fresh
\* tokens, a loaded coordinator -- in particular one whose fetch cycle got a 401
\* and whose renewal then failed -- eventually ends a fetch cycle with fresh data
\* and a token the API accepts, by its fetch cycles alone.
C30_RecoversAfterFailedRenewal ==
    \A e \in Entries :
        (api.up /\ setup[e] = "loaded")
            ~> (/\ fpc[e] = "idle"
                /\ result[e] = Updated
                /\ token_info[e].access_token \notin api.rejects)

====
